---- MODULE Spec2Model ----
(***************************************************************************)
(* PrintQ: the browser client (src/js/printLogic.js) and the conversion    *)
(* server (src/js/backend/service-api.js) as state machines.               *)
(*                                                                         *)
(* The client is single-threaded and cooperative: a handler runs from the  *)
(* event (or the settled network/parse promise) that resumes it up to its  *)
(* next await of an operation that leaves the page (file read + PDF parse, *)
(* fetch, storage upload, record insert).  Such a run is one action.       *)
(***************************************************************************)
EXTENDS Integers, Sequences, FiniteSets, TLC

\* ---------------------------------------------------------------- bounds
\* handleFiles invocations (drop / change events) over a run
MaxHandleCalls == 2
\* files in one FileList
MaxBatch == 3
\* files queued or on their way into the queue at any time
MaxQueue == 3
\* processPayment invocations over a run
MaxSubmits == 2

\* ------------------------------------------------------- JavaScript values
\* A JavaScript value as the client sees it in a page count: an integer
\* number, NaN, a non-numeric string, or undefined (a missing property).
Num(n) == [t |-> "num", v |-> n]
NaN == [t |-> "nan", v |-> 0]
Str == [t |-> "str", v |-> 0]
Undef == [t |-> "undef", v |-> 0]

\* ToBoolean: 0, NaN and undefined are falsy; a non-empty string is truthy.
Truthy(a) == \/ a.t = "num" /\ a.v # 0
             \/ a.t = "str"

\* a || b
JsOr(a, b) == IF Truthy(a) THEN a ELSE b

\* a + b: a string operand makes it a concatenation (a non-numeric string);
\* otherwise numeric addition, NaN and undefined giving NaN.
JsAdd(a, b) ==
  IF a.t = "str" \/ b.t = "str" THEN Str
  ELSE IF a.t = "num" /\ b.t = "num" THEN Num(a.v + b.v)
  ELSE NaN

\* a * b: ToNumber of a non-numeric string or of undefined is NaN.
JsMul(a, b) ==
  IF a.t = "num" /\ b.t = "num" THEN Num(a.v * b.v) ELSE NaN

\* a === 0
IsZero(a) == a.t = "num" /\ a.v = 0

\* ------------------------------------------------------------------ files
\* A File: its name (base and extension as typed), its size and the MIME
\* type the browser reports for it.
MkFile(base, ext, size, type) ==
  [name |-> <<base, ext>>, size |-> size, type |-> type]

Files ==
  { MkFile("a", "pdf", 1, "application/pdf"),
    MkFile("b", "docx", 1, "application/msword"),
    MkFile("c", "jpg", 1, "image/jpeg"),
    MkFile("d", "txt", 1, "text/plain") }

\* Files whose names are typed in other letter cases.
CaseFiles ==
  Files \cup
  { MkFile("e", "PDF", 1, "application/pdf"),
    MkFile("f", "Pdf", 1, ""),
    MkFile("g", "DOCX", 1, ""),
    MkFile("h", "TXT", 1, "text/plain") }

\* A comparison of names that minds the letter case.
KeepCase(ext) == ext

\* String.prototype.toLowerCase on the extensions in use
ToLowerCase(ext) ==
  CASE ext = "PDF" -> "pdf"
    [] ext = "Pdf" -> "pdf"
    [] ext = "DOCX" -> "docx"
    [] ext = "JPG" -> "jpg"
    [] ext = "TXT" -> "txt"
    [] OTHER -> ext

allowedExtensions == {"pdf", "doc", "docx", "png", "jpg", "jpeg", "webp", "jfif"}

\* lowerName.endsWith(ext) for some allowed ext
isAllowed(file) == ToLowerCase(file.name[2]) \in allowedExtensions

IsPdf(file) ==
  file.type = "application/pdf" \/ ToLowerCase(file.name[2]) = "pdf"

IsImage(file) == file.type \in {"image/jpeg", "image/png", "image/webp"}

IsDoc(file) == ToLowerCase(file.name[2]) \in {"doc", "docx"}

\* What page-count resolution of a file awaits: the local parser, the
\* conversion endpoint, or nothing.
Resolver(file) ==
  IF IsPdf(file) THEN "pdf"
  ELSE IF IsImage(file) THEN "none"
  ELSE IF IsDoc(file) THEN "convert"
  ELSE "none"

\* pdf.numPages as the local parser reports it for a document it could load.
PdfPageValues == {Num(0), Num(3)}

\* data.pages of a 200 answer of the conversion endpoint: the body is
\* whatever JSON the remote service sent.
ConvertPageValues == {Num(0), Num(-1), Num(2), Undef, Str}

\* How a page-count resolution of kind "pdf" or "convert" settles: the
\* awaited call throws, rejects, answers not-ok or answers a body that is
\* no JSON (ok = FALSE), or yields a value.
Outcomes(kind) ==
  {[ok |-> FALSE, pages |-> Undef]} \cup
  {[ok |-> TRUE, pages |-> p] :
     p \in IF kind = "pdf" THEN PdfPageValues ELSE ConvertPageValues}


\* ------------------------------------------------------------------ state
VARIABLES
  uploadedFiles,        \* the upload queue: entries {file, name, size, pages}
  currentPricePerPage,  \* unit price of the selected print type
  currentTotal,         \* stored total cost
  currentPrintType,     \* "bw" or "color"
  currentPaperSize,     \* the selected paper size
  payButton,            \* the pay button: disabled flag and caption
  fileListEl,           \* the rendered file list (what renderFileList drew)
  intake,               \* handleFiles invocations: position and remaining input
  pay,                  \* processPayment invocations
  pdfParses,            \* number of local PDF parses started
  convertRequests,      \* number of requests sent to /convert-docx
  dupDrops,             \* files processSingleFile dropped as duplicates
  orders,               \* the record store: rows of table orders
  emails                \* requests sent to /send-email

cvars == <<uploadedFiles, currentPricePerPage, currentTotal, currentPrintType,
           currentPaperSize, payButton, fileListEl, intake, pay, pdfParses,
           convertRequests,
           dupDrops, orders, emails>>

\* The server's state (POST /convert-docx of service-api.js).
VARIABLES
  variant,           \* the version of the server that runs
  sofficeInstalled,  \* whether the converter exists on the host
  sofficeAvailable,  \* the module-level flag of variants 2 and 3
  probePending,      \* the startup probe's callback has not run yet
  now,               \* Date.now()
  tmpFiles,          \* the scratch directory: path -> what the file holds
  req                \* /convert-docx requests

svars == <<variant, sofficeInstalled, sofficeAvailable, probePending, now,
           tmpFiles, req>>

\* The server's state (POST /send-email of service-api.js).
VARIABLES
  credentials,       \* GMAIL_USER and GMAIL_PASSWORD are set
  mail               \* /send-email requests

mvars == <<credentials, mail>>

Handlers == 1..MaxHandleCalls
Subs == 1..MaxSubmits

\* The print-type buttons: (type, price) as passed to selectPrintType.
PrintTypes == {<<"bw", 2>>, <<"color", 5>>}

\* What the customer-email field may hold (trimmed) at a submit.
CustomerEmails == {"", "user@gmail.com"}

\* ---------------------------------------------------------------- queue
Entry(file, pageCount) ==
  [file |-> file, name |-> file.name, size |-> file.size, pages |-> pageCount]

\* processSingleFile without its duplicate check.
NeverDup(q, file) == FALSE

\* uploadedFiles.find(f => f.name === file.name && f.size === file.size)
IsDup(q, file) ==
  \E k \in 1..Len(q) : q[k].name = file.name /\ q[k].size = file.size

\* uploadedFiles.reduce((sum, f) => sum + f.pages, 0)
RECURSIVE SumPages(_)
SumPages(q) ==
  IF q = <<>> THEN Num(0)
  ELSE JsAdd(SumPages(SubSeq(q, 1, Len(q) - 1)), q[Len(q)].pages)

\* The three looks of the pay button.
ButtonInactive == [disabled |-> TRUE, textContent |-> "Place Order (off)"]
ButtonActive == [disabled |-> FALSE, textContent |-> "Place Order"]
ButtonProcessing == [disabled |-> TRUE, textContent |-> "Processing"]

\* A button that a queue never activates.
StuckInactive(q) == ButtonInactive

\* updatePayButtonState() with no forced state
BaseButton(q) ==
  IF Len(q) = 0 \/ IsZero(SumPages(q)) THEN ButtonInactive ELSE ButtonActive

\* currentTotal as updateCostCalculation stores it
TotalFor(q, price) == JsMul(SumPages(q), Num(price))

\* renderFileList: one item per entry, with its remove button
Render(q) == [k \in 1..Len(q) |-> [name |-> q[k].name, size |-> q[k].size]]

\* The page count processSingleFile keeps for a settled resolution:
\* pageCount = x || 1, and 1 when the awaited call failed.
ResolvedPageCount(outcome) ==
  IF outcome.ok THEN JsOr(outcome.pages, Num(1)) ELSE Num(1)

\* An entry put at the head of the queue.
Unshift(q, entry) == <<entry>> \o q

\* uploadedFiles.push(entry)
Push(q, entry) == Append(q, entry)

\* handleFiles' loop over the files still to come, run until
\* processSingleFile suspends in a page-count resolution (cur is the file
\* it resolves, rest what follows it) or the list is exhausted; dups counts
\* the files dropped as duplicates on the way.
RECURSIVE RunLoop(_, _, _)
RunLoop(q, files, dups) ==
  IF files = <<>>
    THEN [q |-> q, pc |-> "done", cur |-> <<>>, rest |-> <<>>, dups |-> dups]
  ELSE IF ~isAllowed(Head(files)) THEN RunLoop(q, Tail(files), dups)
  ELSE IF IsDup(q, Head(files)) THEN RunLoop(q, Tail(files), dups + 1)
  ELSE IF Resolver(Head(files)) = "none"
    THEN RunLoop(Push(q, Entry(Head(files), Num(1))), Tail(files), dups)
  ELSE [q |-> q, pc |-> "resolving", cur |-> <<Head(files)>>,
        rest |-> Tail(files), dups |-> dups]

\* stale: the queue was reset while the invocation was suspended
IdleIntake == [pc |-> "idle", cur |-> <<>>, rest |-> <<>>, stale |-> FALSE]

\* The invocations after a reset of the queue: the suspended ones are marked.
AfterReset(itk) ==
  [h \in DOMAIN itk |->
     IF itk[h].pc = "resolving" THEN [itk[h] EXCEPT !.stale = TRUE]
     ELSE itk[h]]

\* The FileLists of at most n files a drop or a file dialog may deliver.
FileLists(n) == UNION {[1..k -> Files] : k \in 1..n}

\* Files queued plus files that in-flight handleFiles invocations hold.
RECURSIVE Held(_)
Held(hs) ==
  IF hs = {} THEN 0
  ELSE LET h == CHOOSE x \in hs : TRUE
       IN Len(intake[h].cur) + Len(intake[h].rest) + Held(hs \ {h})

Load == Len(uploadedFiles) + Held(Handlers)

\* The state handleFiles leaves when its loop run r ends or suspends.
IntakeStep(h, r) ==
  /\ uploadedFiles' = r.q
  /\ UNCHANGED <<svars, mvars>>
  /\ intake' = [intake EXCEPT ![h] =
       [pc |-> r.pc, cur |-> r.cur, rest |-> r.rest,
        stale |-> intake[h].stale /\ r.pc = "resolving"]]
  /\ dupDrops' = r.dups
  /\ pdfParses' = pdfParses +
       (IF r.pc = "resolving" /\ Resolver(r.cur[1]) = "pdf" THEN 1 ELSE 0)
  /\ convertRequests' = convertRequests +
       (IF r.pc = "resolving" /\ Resolver(r.cur[1]) = "convert" THEN 1 ELSE 0)
  /\ IF r.pc = "done"
       THEN /\ fileListEl' = Render(r.q)
            /\ currentTotal' = TotalFor(r.q, currentPricePerPage)
            /\ payButton' = BaseButton(r.q)
       ELSE UNCHANGED <<fileListEl, currentTotal, payButton>>
  /\ UNCHANGED <<currentPricePerPage, currentPrintType, currentPaperSize,
                 pay, orders, emails>>

\* A drop or change event: handleFiles(fileList).
HandleFiles(h, fileList) ==
  /\ intake[h].pc = "idle"
  /\ \A g \in Handlers : g < h => intake[g].pc # "idle"
  /\ Load + Len(fileList) <= MaxQueue
  /\ IntakeStep(h, RunLoop(uploadedFiles, fileList, dupDrops))

\* The awaited parse or conversion of the current file settles:
\* processSingleFile pushes the entry and handleFiles goes on with its loop.
ResolutionSettles(h, outcome) ==
  /\ intake[h].pc = "resolving"
  /\ outcome \in Outcomes(Resolver(intake[h].cur[1]))
  /\ IntakeStep(h, RunLoop(Push(uploadedFiles,
                             Entry(intake[h].cur[1], ResolvedPageCount(outcome))),
                           intake[h].rest, dupDrops))

\* ------------------------------------------------------------ submission
\* A processPayment invocation.  Its for-of loop iterates the array object
\* that uploadedFiles named when the loop began: while that object is still
\* the queue (live) the loop sees every push; once the queue variable is
\* rebound (removeFile's filter, a reset) the loop goes on over the old
\* object, kept in arr.
\* `uploads/${Date.now()}_${file.name}`, the key the upload stores under
UploadKey(t, file) == <<"uploads", t, file.name>>

IdlePay ==
  [pc |-> "idle", customerEmail |-> "", live |-> FALSE, arr |-> <<>>,
   i |-> 0, orderData |-> <<>>, ordersSummary |-> <<>>, uploads |-> <<>>,
   queued |-> <<>>, key |-> <<>>, result |-> "none", error |-> ""]

InLoop(p) == p.pc \in {"upload", "insert"}

\* The array a submission's loop iterates.
IterArr(p, q) == IF p.live THEN q ELSE p.arr

\* The queue variable is rebound: a loop iterating the old array q keeps it.
Detach(p, q) ==
  IF InLoop(p) /\ p.live THEN [p EXCEPT !.live = FALSE, !.arr = q] ELSE p

\* A removal that also drops what is queued ahead of the match.
RECURSIVE WithoutUpTo(_, _, _)
WithoutUpTo(q, name, size) ==
  IF \A k \in 1..Len(q) : ~(q[k].name = name /\ q[k].size = size) THEN q
  ELSE WithoutUpTo(Tail(q), name, size)

\* uploadedFiles.filter(f => !(f.name === name && f.size === size))
Without(q, name, size) ==
  SelectSeq(q, LAMBDA f : ~(f.name = name /\ f.size = size))

\* removeFile(name, size), from the remove button of a rendered item
removeFile(name, size) ==
  /\ UNCHANGED <<svars, mvars>>
  /\ \E k \in 1..Len(fileListEl) :
       fileListEl[k].name = name /\ fileListEl[k].size = size
  /\ LET q == Without(uploadedFiles, name, size)
     IN /\ uploadedFiles' = q
        /\ fileListEl' = Render(q)
        /\ currentTotal' = TotalFor(q, currentPricePerPage)
        /\ payButton' = BaseButton(q)
  /\ pay' = [s \in Subs |-> Detach(pay[s], uploadedFiles)]
  /\ UNCHANGED <<currentPricePerPage, currentPrintType, currentPaperSize,
                 intake, pdfParses, convertRequests, dupDrops, orders, emails>>

\* selectPrintType(button, type, price)
selectPrintType(type, price) ==
  /\ currentPrintType' = type
  /\ UNCHANGED <<svars, mvars>>
  /\ currentPricePerPage' = price
  /\ currentTotal' = TotalFor(uploadedFiles, price)
  /\ payButton' = BaseButton(uploadedFiles)
  /\ UNCHANGED <<uploadedFiles, currentPaperSize, fileListEl, intake, pay,
                 pdfParses, convertRequests, dupDrops, orders, emails>>

\* The paper sizes of the option buttons.
PaperSizes == {"Letter", "A4"}

\* selectPaperSize(button, size)
selectPaperSize(size) ==
  /\ currentPaperSize' = size
  /\ UNCHANGED <<svars, mvars>>
  /\ UNCHANGED <<uploadedFiles, currentPricePerPage, currentTotal,
                 currentPrintType, payButton, fileListEl, intake, pay,
                 pdfParses, convertRequests, dupDrops, orders, emails>>

\* ordersSummary.reduce((sum, o) => sum + o.cost, 0)
RECURSIVE SumCost(_)
SumCost(os) ==
  IF os = <<>> THEN Num(0)
  ELSE JsAdd(SumCost(SubSeq(os, 1, Len(os) - 1)), os[Len(os)].cost)

\* A catch block that resets the form as the success path does.
ThrowAndReset(s, p, message) ==
  /\ pay' = [pay EXCEPT ![s] =
       [p EXCEPT !.pc = "done", !.result = "failed", !.error = message,
                 !.live = FALSE, !.arr = <<>>, !.i = 0, !.orderData = <<>>,
                 !.queued = <<>>, !.key = <<>>]]
  /\ payButton' = ButtonInactive
  /\ uploadedFiles' = <<>>
  /\ fileListEl' = <<>>
  /\ UNCHANGED <<currentPricePerPage, currentTotal, currentPrintType,
                 currentPaperSize,
                 intake,
                 pdfParses, convertRequests, dupDrops, emails>>

\* A catch block that leaves the button as the submission set it.
ThrowKeepsProcessing(s, p, message) ==
  /\ pay' = [pay EXCEPT ![s] =
       [p EXCEPT !.pc = "done", !.result = "failed", !.error = message,
                 !.live = FALSE, !.arr = <<>>, !.i = 0, !.orderData = <<>>,
                 !.queued = <<>>, !.key = <<>>]]
  /\ payButton' = ButtonProcessing
  /\ UNCHANGED <<uploadedFiles, currentPricePerPage, currentTotal,
                 currentPrintType, currentPaperSize, fileListEl, intake,
                 pdfParses, convertRequests, dupDrops, emails>>

\* The catch block: alert, updatePayButtonState("active").
Throw(s, p, message) ==
  /\ pay' = [pay EXCEPT ![s] =
       [p EXCEPT !.pc = "done", !.result = "failed", !.error = message,
                 !.live = FALSE, !.arr = <<>>, !.i = 0, !.orderData = <<>>,
                 !.queued = <<>>, !.key = <<>>]]
  /\ payButton' = ButtonActive
  /\ UNCHANGED <<uploadedFiles, currentPricePerPage, currentTotal,
                 currentPrintType, currentPaperSize, fileListEl, intake,
                 pdfParses,
                 convertRequests, dupDrops, emails>>

\* A submission whose check of its summary never fires.
NeverNoSummary(p) == FALSE

\* if (ordersSummary.length === 0) throw new Error("All uploads failed.")
NoSummary(p) == Len(p.ordersSummary) = 0

\* The loop takes its next element, or ends: with no summary entry the
\* submission throws, otherwise the confirmation is composed and sent.
NextFile(s, p) ==
  IF p.i + 1 <= Len(IterArr(p, uploadedFiles))
  THEN /\ pay' = [pay EXCEPT ![s] =
            [p EXCEPT !.pc = "upload", !.i = p.i + 1, !.orderData = <<>>,
                      !.key = <<UploadKey(now,
                                  IterArr(p, uploadedFiles)[p.i + 1].file)>>]]
       /\ UNCHANGED <<uploadedFiles, currentPricePerPage, currentTotal,
                      currentPrintType, currentPaperSize, payButton,
                      fileListEl, intake,
                      pdfParses, convertRequests, dupDrops, emails>>
  ELSE IF NoSummary(p)
  THEN Throw(s, p, "All uploads failed.")
  ELSE /\ pay' = [pay EXCEPT ![s] =
            [p EXCEPT !.pc = "email", !.live = FALSE, !.arr = <<>>, !.i = 0,
                      !.orderData = <<>>, !.queued = <<>>, !.key = <<>>]]
       /\ emails' = Append(emails,
            [sub |-> s, to |-> p.customerEmail,
             lines |-> [k \in 1..Len(p.ordersSummary) |->
                          [fileName |-> p.ordersSummary[k].fileName,
                           pages |-> p.ordersSummary[k].pages,
                           cost |-> p.ordersSummary[k].cost]],
             total |-> SumCost(p.ordersSummary)])
       /\ UNCHANGED <<uploadedFiles, currentPricePerPage, currentTotal,
                      currentPrintType, currentPaperSize, payButton,
                      fileListEl, intake,
                      pdfParses, convertRequests, dupDrops>>

\* A check of the customer identity that lets every value through.
AnyIdentity(customerEmail) == FALSE

\* if (!customerEmail)
NoIdentity(customerEmail) == customerEmail = ""

\* A click on the pay button, or Enter: processPayment() up to its first
\* storage upload.
processPayment(s, email) ==
  /\ ~payButton.disabled
  /\ pay[s].pc = "idle"
  /\ \A g \in Subs : g < s => pay[g].pc # "idle"
  /\ UNCHANGED <<svars, mvars>>
  /\ UNCHANGED orders
  /\ LET p == [pay[s] EXCEPT !.customerEmail = email] IN
     IF NoIdentity(email) THEN Throw(s, p, "Please enter a Gmail address.")
     ELSE IF Len(uploadedFiles) = 0 THEN Throw(s, p, "No files uploaded.")
     ELSE /\ pay' = [pay EXCEPT ![s] =
               [p EXCEPT !.pc = "upload", !.live = TRUE, !.i = 1,
                         !.queued = uploadedFiles,
                         !.key = <<UploadKey(now, uploadedFiles[1].file)>>]]
          /\ payButton' = ButtonProcessing
          /\ UNCHANGED <<uploadedFiles, currentPricePerPage, currentTotal,
                         currentPrintType, currentPaperSize, fileListEl,
                         intake, pdfParses,
                         convertRequests, dupDrops, emails>>

\* A loop that gives up at the first failed upload.
AbortOnFailedUpload(s, p) == Throw(s, p, "Upload failed")

\* A loop that saves an order for a file whose upload failed.
InsertAfterFailedUpload(s, p) ==
  LET f == IterArr(p, uploadedFiles)[p.i] IN
  /\ pay' = [pay EXCEPT ![s] =
       [p EXCEPT !.pc = "insert", !.orderData =
          [fileName |-> f.name, filePath |-> <<>>, pageCount |-> f.pages,
           paperSize |-> currentPaperSize, color |-> "Black & White",
           cost |-> JsMul(f.pages, Num(currentPricePerPage)),
           customerEmail |-> p.customerEmail]]]
  /\ UNCHANGED <<uploadedFiles, currentPricePerPage, currentTotal,
                 currentPrintType, currentPaperSize, payButton, fileListEl,
                 intake, pdfParses, convertRequests, dupDrops, emails>>

\* if (!filePath) continue
AfterFailedUpload(s, p) == NextFile(s, p)

\* uploadFileToSupabase settles: a path, or null on any error.
UploadSettles(s, ok) ==
  /\ pay[s].pc = "upload"
  /\ UNCHANGED <<svars, mvars>>
  /\ UNCHANGED orders
  /\ LET f == IterArr(pay[s], uploadedFiles)[pay[s].i]
         p == [pay[s] EXCEPT !.uploads =
                 Append(@, [name |-> f.name, size |-> f.size, ok |-> ok,
                            key |-> pay[s].key[1],
                            path |-> IF ok THEN pay[s].key ELSE <<>>]),
                              !.key = <<>>]
     IN IF ~ok THEN AfterFailedUpload(s, p)
        ELSE /\ pay' = [pay EXCEPT ![s] =
                  [p EXCEPT !.pc = "insert", !.orderData =
                     [fileName |-> f.name,
                      filePath |-> pay[s].key[1],
                      pageCount |-> f.pages,
                      paperSize |-> currentPaperSize,
                      color |-> IF currentPrintType = "bw"
                                THEN "Black & White" ELSE "Colored",
                      cost |-> JsMul(f.pages, Num(currentPricePerPage)),
                      customerEmail |-> p.customerEmail]]]
             /\ UNCHANGED <<uploadedFiles, currentPricePerPage, currentTotal,
                            currentPrintType, currentPaperSize, payButton,
                            fileListEl, intake,
                            pdfParses, convertRequests, dupDrops, emails>>

\* The row savePrintJob inserts for orderData.
OrderRow(s, p, id) ==
  [id |-> id, color |-> p.orderData.color, cost |-> p.orderData.cost,
   filename |-> p.orderData.fileName, pagecount |-> p.orderData.pageCount,
   papersize |-> p.orderData.paperSize, status |-> "pending",
   customer_email |-> p.orderData.customerEmail,
   sub |-> s, idx |-> p.i]

\* savePrintJob settles: the inserted row, or null on any error; either way
\* processPayment pushes a summary entry.
InsertSettles(s, ok) ==
  /\ pay[s].pc = "insert"
  /\ UNCHANGED <<svars, mvars>>
  /\ LET id == Len(orders) + 1
         p == [pay[s] EXCEPT !.ordersSummary =
                 Append(@, [fileName |-> pay[s].orderData.fileName,
                            pages |-> pay[s].orderData.pageCount,
                            cost |-> pay[s].orderData.cost,
                            orderId |-> IF ok THEN id ELSE 0])]
     IN /\ orders' = IF ok THEN Append(orders, OrderRow(s, pay[s], id))
                     ELSE orders
        /\ NextFile(s, p)

\* A reset that leaves the queue as it is.
KeepQueue(q) == q

\* updatePayButtonState("reset"): uploadedFiles = []
ResetQueue(q) == <<>>

\* sendEmailNotification settles.  Delivered: alert and
\* updatePayButtonState("reset"); otherwise the catch block.
EmailSettles(s, ok) ==
  /\ pay[s].pc = "email"
  /\ UNCHANGED <<svars, mvars>>
  /\ UNCHANGED orders
  /\ IF ~ok THEN Throw(s, pay[s], "Email failed")
     ELSE /\ pay' = [g \in Subs |->
               IF g = s THEN [pay[s] EXCEPT !.pc = "done", !.result = "success"]
               ELSE Detach(pay[g], uploadedFiles)]
          /\ uploadedFiles' = ResetQueue(uploadedFiles)
          /\ fileListEl' = Render(ResetQueue(uploadedFiles))
          /\ currentTotal' =
               TotalFor(ResetQueue(uploadedFiles), currentPricePerPage)
          /\ payButton' = ButtonInactive
          /\ intake' = AfterReset(intake)
          /\ UNCHANGED <<currentPricePerPage, currentPrintType,
                         currentPaperSize, pdfParses, convertRequests,
                         dupDrops, emails>>

\* showMainPage(): resetForm()
showMainPage ==
  /\ uploadedFiles' = <<>>
  /\ UNCHANGED <<svars, mvars>>
  /\ fileListEl' = <<>>
  /\ currentTotal' = TotalFor(<<>>, currentPricePerPage)
  /\ payButton' = BaseButton(<<>>)
  /\ pay' = [s \in Subs |-> Detach(pay[s], uploadedFiles)]
  /\ intake' = AfterReset(intake)
  /\ UNCHANGED <<currentPricePerPage, currentPrintType, currentPaperSize,
                 pdfParses, convertRequests, dupDrops, orders, emails>>

ClientInit ==
  /\ uploadedFiles = <<>>
  /\ currentPricePerPage = 2
  /\ currentTotal = Num(0)
  /\ currentPrintType = "bw"
  /\ currentPaperSize = "Letter"
  /\ payButton = ButtonInactive
  /\ fileListEl = <<>>
  /\ intake = [h \in Handlers |-> IdleIntake]
  /\ pay = [s \in Subs |-> IdlePay]
  /\ pdfParses = 0
  /\ convertRequests = 0
  /\ dupDrops = 0
  /\ orders = <<>>
  /\ emails = <<>>

\* The client's steps, for the handleFiles invocations H fed from the
\* FileLists FL and the processPayment invocations S.
ClientNext(H, FL, S) ==
  \/ \E h \in H, fl \in FL : HandleFiles(h, fl)
  \/ \E h \in H, o \in Outcomes("pdf") \cup Outcomes("convert") :
       ResolutionSettles(h, o)
  \/ \E f \in Files : removeFile(f.name, f.size)
  \/ \E t \in PrintTypes : selectPrintType(t[1], t[2])
  \/ \E s \in S, e \in CustomerEmails : processPayment(s, e)
  \/ \E s \in S, ok \in BOOLEAN : UploadSettles(s, ok)
  \/ \E s \in S, ok \in BOOLEAN : InsertSettles(s, ok)
  \/ \E s \in S, ok \in BOOLEAN : EmailSettles(s, ok)
  \/ showMainPage

\* ------------------------------------------------------------ the server
\* POST /convert-docx of src/js/backend/service-api.js.  The file holds four
\* successive versions of the server; variant says which one runs.
\*   1: probes soffice per request (asynchronously), exec with a timeout
\*   2, 3: probe soffice once at startup, exec with a timeout
\*   4: no probe, scratch name not sanitized, exec without a timeout
\* requests over a run
MaxRequests == 2
\* milliseconds the clock may advance
MaxClock == 1

Requests == 1..MaxRequests

\* Original file names (base, extension) a request may carry.
OriginalNames == {<<"b", "docx">>, <<"b b", "docx">>, <<"b_b", "docx">>,
                  <<"x", "txt">>}

\* originalname.replace(/[^a-zA-Z0-9.\-_]/g, "_")
Sanitize(name) == IF name[1] = "b b" THEN <<"b_b", name[2]>> ELSE name

\* path.join(tempDir, `${Date.now()}_${name}`)
ScratchPath(t, name) == [ts |-> t, base |-> name[1], ext |-> name[2]]

\* The scratch name of a request for originalname in the running variant.
SafeName(name) == IF variant = 4 THEN name ELSE Sanitize(name)

\* inputPath.replace(/\.(docx|doc)$/i, ".pdf")
PdfPath(inputPath) ==
  IF ToLowerCase(inputPath.ext) \in {"doc", "docx"}
  THEN [inputPath EXCEPT !.ext = "pdf"] ELSE inputPath

\* Where soffice --convert-to pdf --outdir writes its result for inputPath.
SofficeOutput(inputPath) == [inputPath EXCEPT !.ext = "pdf"]

\* exec(cmd, {timeout: 60000}, ...) in variants 1 to 3, exec(cmd, ...) in 4
ExecHasTimeout == variant \in {1, 2, 3}

\* fs.writeFileSync(path, content)
WriteFile(fs, path, content) ==
  [q \in DOMAIN fs \cup {path} |-> IF q = path THEN content ELSE fs[q]]

\* fs.unlinkSync(path) inside try/catch
Unlink(fs, path) == [q \in DOMAIN fs \ {path} |-> fs[q]]

IdleReq ==
  [pc |-> "idle", hangs |-> FALSE, inputPath |-> <<>>, status |-> 0,
   pages |-> 0, readFrom |-> <<>>]

\* res.status(code).json(...)
Respond(r, p, code, pages) ==
  req' = [req EXCEPT ![r] = [p EXCEPT !.pc = "answered", !.status = code,
                                      !.pages = pages]]

\* The startup probe's callback (variants 2 and 3).
StartupProbe ==
  /\ probePending
  /\ probePending' = FALSE
  /\ sofficeAvailable' = sofficeInstalled
  /\ UNCHANGED <<variant, sofficeInstalled, now, tmpFiles, req>>
  /\ UNCHANGED <<cvars, mvars>>

\* Time passes.
Tick ==
  /\ now < MaxClock
  /\ now' = now + 1
  /\ UNCHANGED <<variant, sofficeInstalled, sofficeAvailable, probePending,
                 tmpFiles, req>>
  /\ UNCHANGED <<cvars, mvars>>

\* A request without a file part.
ConvertNoFile(r) ==
  /\ req[r].pc = "idle"
  /\ \A g \in Requests : g < r => req[g].pc # "idle"
  /\ Respond(r, req[r], 400, 0)
  /\ UNCHANGED <<variant, sofficeInstalled, sofficeAvailable, probePending,
                 now, tmpFiles>>
  /\ UNCHANGED <<cvars, mvars>>

\* A request carrying a file: the handler up to its await of the converter.
\* hangs: the converter subprocess would never exit on its own.
ConvertDocx(r, name, hangs) ==
  /\ req[r].pc = "idle"
  /\ \A g \in Requests : g < r => req[g].pc # "idle"
  /\ IF variant \in {2, 3} /\ ~sofficeAvailable
     THEN /\ Respond(r, req[r], 503, 0)
          /\ UNCHANGED tmpFiles
     ELSE LET inputPath == ScratchPath(now, SafeName(name)) IN
          /\ tmpFiles' = WriteFile(tmpFiles, inputPath,
                                   [by |-> r, kind |-> "upload"])
          /\ req' = [req EXCEPT ![r] =
               [req[r] EXCEPT !.pc = "converting", !.hangs = hangs,
                              !.inputPath = <<inputPath>>]]
  /\ UNCHANGED <<variant, sofficeInstalled, sofficeAvailable, probePending,
                 now>>
  /\ UNCHANGED <<cvars, mvars>>

\* How the converter subprocess ends.
ExecOutcomes == {"exit0", "error", "timeout"}

\* exec's callback runs: the subprocess exited (made: it left its output
\* file behind) or was killed at the timeout; then the artifact is looked
\* up, loaded (loads: pdf-lib accepts what the file holds) and counted.
ExecSettles(r, outcome, made, loads, pageCount) ==
  /\ req[r].pc = "converting"
  /\ outcome = "exit0" => sofficeInstalled /\ ~req[r].hangs
  /\ outcome = "error" => ~req[r].hangs
  /\ outcome = "timeout" => ExecHasTimeout
  /\ LET inputPath == req[r].inputPath[1]
         pdfPath == PdfPath(inputPath)
         fs1 == IF made
                THEN WriteFile(tmpFiles, SofficeOutput(inputPath),
                               [by |-> r, kind |-> "pdf"])
                ELSE tmpFiles
     IN IF outcome # "exit0" THEN
          /\ tmpFiles' = fs1
          /\ Respond(r, req[r], 500, 0)
        ELSE IF pdfPath \notin DOMAIN fs1 THEN
          /\ tmpFiles' = fs1
          /\ Respond(r, req[r], 500, 0)
        ELSE IF ~loads THEN
          /\ tmpFiles' = fs1
          /\ Respond(r, [req[r] EXCEPT !.readFrom = <<fs1[pdfPath]>>], 500, 0)
        ELSE
          /\ tmpFiles' = Unlink(Unlink(fs1, inputPath), pdfPath)
          /\ Respond(r, [req[r] EXCEPT !.readFrom = <<fs1[pdfPath]>>],
                     200, pageCount)
  /\ UNCHANGED <<variant, sofficeInstalled, sofficeAvailable, probePending,
                 now>>
  /\ UNCHANGED <<cvars, mvars>>

ServerInit ==
  /\ variant \in 1..4
  /\ sofficeInstalled \in BOOLEAN
  /\ sofficeAvailable = FALSE
  /\ probePending = (variant \in {2, 3})
  /\ now = 0
  /\ tmpFiles = <<>>
  /\ req = [r \in Requests |-> IdleReq]

ServerNext ==
  \/ StartupProbe
  \/ Tick
  \/ \E r \in Requests : ConvertNoFile(r)
  \/ \E r \in Requests, n \in OriginalNames, h \in BOOLEAN :
       ConvertDocx(r, n, h)
  \/ \E r \in Requests, o \in ExecOutcomes, made \in BOOLEAN,
        loads \in BOOLEAN, pc \in {0, 2} :
       ExecSettles(r, o, made, loads, pc)

\* ------------------------------------------------------ the mail route
\* POST /send-email.  Variants 1 to 3 create the transporter only when the
\* credentials are set and check the recipient; variant 4 always creates it
\* and checks only that the three fields are there.
\* requests over a run
MaxMails == 2

Mails == 1..MaxMails

\* Values of a field of the JSON body.
Missing == [t |-> "undef", v |-> ""]
Text(str) == [t |-> "str", v |-> str]
List(str) == [t |-> "arr", v |-> str]

Recipients ==
  {Missing, Text(""), Text("nobody"), Text("user@gmail.com"),
   List("user@gmail.com")}
Subjects == {Missing, Text("PrintQ Order Confirmation")}
Messages == {Text(""), Text("Your files have been received")}

\* !field is false
Present(a) == a.t = "arr" \/ (a.t = "str" /\ a.v # "")

\* /@/.test(to) on the strings in use
HasAt(str) == str = "user@gmail.com"

\* let transporter = null, set when the credentials are there (variants 1
\* to 3); const transporter = nodemailer.createTransport(...) (variant 4)
TransporterSet == variant = 4 \/ credentials

\* if (!transporter) return res.status(500)
LacksTransporter == variant \in {1, 2, 3} /\ ~TransporterSet

\* if (typeof to !== "string" || !/@/.test(to)) return res.status(400)
RejectsRecipient(to) ==
  variant \in {1, 2, 3} /\ (to.t # "str" \/ ~HasAt(to.v))

IdleMail ==
  [pc |-> "idle", to |-> Missing, subject |-> Missing, message |-> Missing,
   status |-> 0, invoked |-> FALSE]

\* A /send-email request: the handler up to its answer or its await of
\* transporter.sendMail.
SendEmail(m, to, subject, message) ==
  /\ mail[m].pc = "idle"
  /\ \A g \in Mails : g < m => mail[g].pc # "idle"
  /\ LET q == [mail[m] EXCEPT !.to = to, !.subject = subject,
                              !.message = message]
     IN mail' = [mail EXCEPT ![m] =
          IF LacksTransporter
            THEN [q EXCEPT !.pc = "answered", !.status = 500]
          ELSE IF ~Present(to) \/ ~Present(subject) \/ ~Present(message)
            THEN [q EXCEPT !.pc = "answered", !.status = 400]
          ELSE IF RejectsRecipient(to)
            THEN [q EXCEPT !.pc = "answered", !.status = 400]
          ELSE [q EXCEPT !.pc = "sending", !.invoked = TRUE]]
  /\ UNCHANGED credentials
  /\ UNCHANGED <<cvars, svars>>

\* transporter.sendMail settles: the answer, or the catch block's 500.
SendMailSettles(m, ok) ==
  /\ mail[m].pc = "sending"
  /\ ok => credentials
  /\ mail' = [mail EXCEPT ![m] =
       [mail[m] EXCEPT !.pc = "answered",
                       !.status = IF ok THEN 200 ELSE 500]]
  /\ UNCHANGED credentials
  /\ UNCHANGED <<cvars, svars>>

\* The specifications that do not run the mail route.
MailAtRest ==
  /\ credentials = FALSE
  /\ mail = [m \in Mails |-> IdleMail]

MailNext ==
  \/ \E m \in Mails, to \in Recipients, subject \in Subjects,
        message \in Messages : SendEmail(m, to, subject, message)
  \/ \E m \in Mails, ok \in BOOLEAN : SendMailSettles(m, ok)

vars == <<cvars, svars, mvars>>

\* The client specifications do not run the server (the client meets it only
\* through the answers of its requests): its variables rest at one value.
ServerAtRest ==
  /\ variant = 1
  /\ sofficeInstalled = TRUE
  /\ sofficeAvailable = FALSE
  /\ probePending = FALSE
  /\ now = 0
  /\ tmpFiles = <<>>
  /\ req = [r \in Requests |-> IdleReq]

Init == ClientInit /\ ServerAtRest /\ MailAtRest

\* The client with one intake at a time and one submission.
Next == ClientNext({1}, FileLists(MaxBatch), {1})
Spec == Init /\ [][Next]_vars

\* The intake alone, with concurrent handleFiles invocations.
NextIntake ==
  \/ \E h \in Handlers, fl \in FileLists(MaxBatch) : HandleFiles(h, fl)
  \/ \E h \in Handlers, o \in Outcomes("pdf") \cup Outcomes("convert") :
       ResolutionSettles(h, o)
  \/ \E f \in Files : removeFile(f.name, f.size)
  \/ \E t \in PrintTypes : selectPrintType(t[1], t[2])
  \/ showMainPage
SpecIntake == Init /\ [][NextIntake]_vars

\* The intake fed with names in any letter case.
CaseLists == UNION {[1..k -> CaseFiles] : k \in 1..2}

NextCase ==
  \/ \E h \in Handlers, fl \in CaseLists : HandleFiles(h, fl)
  \/ \E h \in Handlers, o \in Outcomes("pdf") \cup Outcomes("convert") :
       ResolutionSettles(h, o)
SpecCase == Init /\ [][NextCase]_vars

\* The local PDF parse handleFiles invocation h awaits settles.
PdfParseSettles(h) ==
  /\ intake[h].pc = "resolving"
  /\ Resolver(intake[h].cur[1]) = "pdf"
  /\ \E o \in Outcomes("pdf") : ResolutionSettles(h, o)

\* The intake where every local PDF parse settles; the answer to a
\* conversion request is the server's to give and may never come (fetch is
\* called without a timeout).
SpecIntakeLive ==
  Init /\ [][NextIntake]_vars /\ \A h \in Handlers : WF_vars(PdfParseSettles(h))

\* The client with one single-file intake and repeated submissions.
NextOverlap ==
  \/ ClientNext({1}, FileLists(1), Subs)
  \/ \E size \in PaperSizes : selectPaperSize(size)
SpecOverlap == Init /\ [][NextOverlap]_vars

\* The call a submission awaits settles: the storage upload, the record
\* store's insert, the notification request.
AwaitedCallSettles(s) ==
  \/ \E ok \in BOOLEAN : UploadSettles(s, ok)
  \/ \E ok \in BOOLEAN : InsertSettles(s, ok)
  \/ \E ok \in BOOLEAN : EmailSettles(s, ok)

\* One intake of up to two files and one submission, every call of which
\* settles.
NextSubmit == ClientNext({1}, FileLists(2), {1})
SpecSubmitLive ==
  Init /\ [][NextSubmit]_vars /\ WF_vars(AwaitedCallSettles(1))

\* The conversion server, in any of its variants.
InitServer == ClientInit /\ ServerInit /\ MailAtRest
NextServer == ServerNext
SpecServer == InitServer /\ [][NextServer]_vars

\* The client on a running clock, fed with files of which two have the same
\* name and different sizes.
KeyFiles ==
  { MkFile("a", "pdf", 1, "application/pdf"),
    MkFile("a", "pdf", 2, "application/pdf"),
    MkFile("c", "jpg", 1, "image/jpeg") }
KeyLists == UNION {[1..k -> KeyFiles] : k \in 1..2}
NextKeys ==
  \/ \E fl \in KeyLists : HandleFiles(1, fl)
  \/ \E o \in Outcomes("pdf") : ResolutionSettles(1, o)
  \/ selectPrintType("bw", 2)
  \/ \E s \in Subs : processPayment(s, "user@gmail.com")
  \/ \E s \in Subs, ok \in BOOLEAN : UploadSettles(s, ok)
  \/ \E s \in Subs, ok \in BOOLEAN : InsertSettles(s, ok)
  \/ \E s \in Subs, ok \in BOOLEAN : EmailSettles(s, ok)
  \/ Tick
SpecKeys == Init /\ [][NextKeys]_vars

\* The mail route, in any of the variants, with or without credentials.
InitMail ==
  /\ ClientInit
  /\ variant \in 1..4
  /\ sofficeInstalled = TRUE
  /\ sofficeAvailable = FALSE
  /\ probePending = FALSE
  /\ now = 0
  /\ tmpFiles = <<>>
  /\ req = [r \in Requests |-> IdleReq]
  /\ credentials \in BOOLEAN
  /\ mail = [m \in Mails |-> IdleMail]
NextMail == MailNext
SpecMail == InitMail /\ [][NextMail]_vars

\* exec's callback of request r runs, however the subprocess ended.
ExecCallback(r) ==
  \E o \in ExecOutcomes, made \in BOOLEAN, loads \in BOOLEAN, pc \in {0, 2} :
    ExecSettles(r, o, made, loads, pc)

\* The server where exec calls its callback once the subprocess has ended
\* or the timeout has killed it.
SpecServerLive ==
  InitServer /\ [][NextServer]_vars
    /\ \A r \in Requests : WF_vars(ExecCallback(r))

\* ================================================================ claims
SameKey(a, b) == a.name = b.name /\ a.size = b.size

\* Number of entries of q that carry the (name, size) of x.
KeyCount(q, x) == Cardinality({k \in 1..Len(q) : SameKey(q[k], x)})

\* C1: every entry of the queue has an integer page count of at least 1,
\* whatever the PDF parser or the conversion endpoint returned.
PageCountAtLeastOne ==
  \A k \in 1..Len(uploadedFiles) :
    uploadedFiles[k].pages.t = "num" /\ uploadedFiles[k].pages.v >= 1

\* C2: no two entries of the queue share (name, size), also when two
\* handleFiles invocations were suspended resolving the same file.
DedupKeyUnique ==
  \A j, k \in 1..Len(uploadedFiles) :
    SameKey(uploadedFiles[j], uploadedFiles[k]) => j = k

\* What handleFiles invocation h must leave when it runs the files L against
\* the queue q0: q0 stays as it is, a file of L whose (name, size) is in q0
\* gains no entry and is not sent to a resolution, and when every file of L
\* is such a duplicate the queue is q0 and no parse or conversion started.
DupAddsLeave(h, q0, L) ==
  /\ Len(uploadedFiles') >= Len(q0)
  /\ SubSeq(uploadedFiles', 1, Len(q0)) = q0
  /\ \A k \in 1..Len(L) :
       KeyCount(q0, L[k]) > 0 =>
         /\ KeyCount(uploadedFiles', L[k]) = KeyCount(q0, L[k])
         /\ intake'[h].pc = "resolving" => ~SameKey(intake'[h].cur[1], L[k])
  /\ (\A k \in 1..Len(L) : KeyCount(q0, L[k]) > 0) =>
       /\ uploadedFiles' = q0
       /\ pdfParses' = pdfParses
       /\ convertRequests' = convertRequests
       /\ intake'[h].pc = "done"

NoOtherIntake(h) == \A g \in Handlers \ {h} : intake[g].pc # "resolving"

\* C3: with no other intake in flight, adding a file whose (name, size) is
\* that of a queued file leaves the queue unchanged and starts no page-count
\* resolution and no conversion request, at the start of handleFiles and
\* when its loop goes on after a resolution.
DuplicateAddLeavesQueue ==
  [][\A h \in Handlers :
       /\ intake[h].pc = "idle" /\ intake'[h].pc # "idle" /\ NoOtherIntake(h)
            => \A fl \in FileLists(MaxBatch) :
                 HandleFiles(h, fl) => DupAddsLeave(h, uploadedFiles, fl)
       /\ intake[h].pc = "resolving" /\ intake'[h] # intake[h]
            /\ NoOtherIntake(h)
            => \A o \in Outcomes(Resolver(intake[h].cur[1])) :
                 ResolutionSettles(h, o)
                   => DupAddsLeave(h,
                        Append(uploadedFiles,
                               Entry(intake[h].cur[1], ResolvedPageCount(o))),
                        intake[h].rest)]_vars

\* A duplicate was dropped, no intake is in flight, and the one queued file
\* is the only one a resolution was ever started for.
DuplicateDropped ==
  /\ dupDrops > 0
  /\ \A h \in Handlers : intake[h].pc # "resolving"
  /\ Len(uploadedFiles) = 1
  /\ pdfParses + convertRequests = 1

\* C4: once a /convert-docx request is answered, with success or with any
\* failure, no scratch input and no PDF artifact of that request remains in
\* the scratch directory.
NoScratchAfterAnswer ==
  \A r \in Requests :
    req[r].pc = "answered" =>
      \A path \in DOMAIN tmpFiles : tmpFiles[path].by # r

\* The order rows submission s persisted.
Persisted(s) == SelectSeq(orders, LAMBDA row : row.sub = s)

\* The notification requests submission s made.
Notified(s) == SelectSeq(emails, LAMBDA e : e.sub = s)

InFlight(s) == pay[s].pc \in {"upload", "insert", "email"}

\* C5: the grand total of a submission's confirmation is the sum of cost
\* over exactly the files whose order record was persisted in it; a file
\* whose upload or whose insert failed contributes nothing.
TotalOverPersistedOrders ==
  \A k \in 1..Len(emails) :
    emails[k].total = SumCost(Persisted(emails[k].sub))

\* C6: a submission that has left its loop without persisting any order
\* record makes no request to the notification endpoint and ends as a
\* failure.
NoOrderNoNotification ==
  \A s \in Subs :
    pay[s].pc \in {"email", "done"} /\ Persisted(s) = <<>> =>
      /\ Notified(s) = <<>>
      /\ pay[s].pc = "done" /\ pay[s].result = "failed"

\* Every storage upload submission record p attempted has failed.
AllUploadsFailed(p) ==
  Len(p.uploads) > 0 /\ \A k \in 1..Len(p.uploads) : ~p.uploads[k].ok

\* C7: a submission whose storage upload failed for every file requests no
\* notification and creates no order record, ends with the one error
\* "All uploads failed.", and the step that ends it puts the pay button
\* back to Active and leaves the queue as it is.
AllUploadsFailedReport ==
  /\ [](\A s \in Subs :
          AllUploadsFailed(pay[s]) =>
            /\ Notified(s) = <<>>
            /\ Persisted(s) = <<>>
            /\ pay[s].pc \in {"upload", "done"}
            /\ pay[s].pc = "done" =>
                 pay[s].result = "failed" /\ pay[s].error = "All uploads failed.")
  /\ [][\A s \in Subs :
          pay[s].pc # "done" /\ pay'[s].pc = "done"
            /\ AllUploadsFailed(pay'[s])
          => payButton' = ButtonActive /\ uploadedFiles' = uploadedFiles]_vars

\* A submission of three files ended after all three uploads failed, the
\* three files still queued.
AllThreeUploadsFailed ==
  \E s \in Subs :
    /\ pay[s].pc = "done"
    /\ Len(pay[s].uploads) = 3
    /\ AllUploadsFailed(pay[s])
    /\ Len(uploadedFiles) = 3
    /\ payButton = ButtonActive

\* C8: a delivered submission of n files of which k uploads failed
\* (0 < k < n) and every insert succeeded holds n - k success entries and k
\* failure entries in its batch result, the total being over the successes.
FailureEntriesRecorded ==
  \A s \in Subs :
    LET p == pay[s]
        n == Len(p.uploads)
        k == Cardinality({j \in 1..n : ~p.uploads[j].ok})
        succ == {j \in 1..Len(p.ordersSummary) : p.ordersSummary[j].orderId # 0}
        fail == {j \in 1..Len(p.ordersSummary) : p.ordersSummary[j].orderId = 0}
    IN p.pc = "done" /\ p.result = "success" /\ 0 < k /\ k < n
         /\ Len(Persisted(s)) = n - k
       => /\ Cardinality(succ) = n - k
          /\ Cardinality(fail) = k
          /\ Notified(s)[1].total = SumCost(Persisted(s))

\* C9: a failed upload or insert never stops a submission's loop: the
\* uploads attempted so far are those of the files the loop has passed, one
\* each and in order, the loop ends only when an upload was attempted for
\* every file of the array it iterates, and an order record exists only for
\* a file whose upload succeeded.
FailureNeverStopsLoop ==
  /\ [](\A s \in Subs :
          /\ InLoop(pay[s]) =>
               /\ pay[s].i <= Len(IterArr(pay[s], uploadedFiles))
               /\ Len(pay[s].uploads) =
                    IF pay[s].pc = "upload" THEN pay[s].i - 1 ELSE pay[s].i
               /\ \A k \in 1..Len(pay[s].uploads) :
                    SameKey(pay[s].uploads[k], IterArr(pay[s], uploadedFiles)[k])
          /\ \A k \in 1..Len(orders) :
               orders[k].sub = s =>
                 /\ orders[k].idx <= Len(pay[s].uploads)
                 /\ pay[s].uploads[orders[k].idx].ok)
  /\ [][\A s \in Subs :
          InLoop(pay[s]) /\ ~InLoop(pay'[s]) =>
            Len(pay'[s].uploads) = Len(IterArr(pay[s], uploadedFiles))]_vars

\* A submission went through three files although the upload of the first
\* and the insert of the second failed.
LoopWentOnAfterFailures ==
  \E s \in Subs :
    /\ ~InLoop(pay[s])
    /\ Len(pay[s].uploads) = 3
    /\ ~pay[s].uploads[1].ok
    /\ pay[s].uploads[2].ok /\ pay[s].uploads[3].ok
    /\ Len(pay[s].ordersSummary) = 2
    /\ pay[s].ordersSummary[1].orderId = 0
    /\ pay[s].ordersSummary[2].orderId # 0

\* C10: at most one submission is in flight, and while one is in flight a
\* step that is no queue mutation (the queue and the intakes stay as they
\* are) leaves the pay button disabled.
SubmitStaysDisabled ==
  [][/\ Cardinality({s \in Subs : InFlight(s)'}) <= 1
     /\ (/\ \E s \in Subs : InFlight(s) /\ InFlight(s)'
         /\ payButton.disabled
         /\ uploadedFiles' = uploadedFiles
         /\ intake' = intake)
        => payButton'.disabled]_vars

\* C11: at most one order record is ever persisted for a file of the queue,
\* over any sequence of submissions (a file is accepted once here, so its
\* name tells it).
OneOrderPerFile ==
  \A j, k \in 1..Len(orders) :
    orders[j].filename = orders[k].filename => j = k

\* C12: when the notification fails after order records were created, the
\* records stay (orders only ever grows), the submission ends as failed with
\* the delivery error, the queue is as it was and the pay button is Active.
NotificationFailureKeepsOrders ==
  [][/\ Len(orders') >= Len(orders)
     /\ SubSeq(orders', 1, Len(orders)) = orders
     /\ \A s \in Subs :
          pay[s].pc = "email" /\ pay'[s].pc = "done" /\ EmailSettles(s, FALSE)
          => /\ orders' = orders
             /\ pay'[s].result = "failed"
             /\ pay'[s].error = "Email failed"
             /\ uploadedFiles' = uploadedFiles
             /\ ~payButton'.disabled
             /\ payButton'.textContent = "Place Order"]_vars

\* A submission persisted orders, failed at the notification, and the queue
\* and the orders are still there.
OrdersKeptAfterEmailFailed ==
  \E s \in Subs :
    /\ pay[s].pc = "done" /\ pay[s].error = "Email failed"
    /\ Len(Persisted(s)) = 2
    /\ Len(uploadedFiles) = 2
    /\ payButton = ButtonActive

\* C13: when the conversion request of a .doc/.docx file fails, the file is
\* appended to the queue with page count 1 and with resolutionStatus =
\* "DefaultedAfterFailure".
DefaultedAfterFailure ==
  [][\A h \in Handlers :
       /\ intake[h].pc = "resolving" /\ intake'[h] # intake[h]
       /\ Resolver(intake[h].cur[1]) = "convert"
       /\ ResolutionSettles(h, [ok |-> FALSE, pages |-> Undef])
       => LET e == uploadedFiles'[Len(uploadedFiles) + 1]
          IN /\ SameKey(e, intake[h].cur[1])
             /\ e.pages = Num(1)
             /\ "resolutionStatus" \in DOMAIN e
             /\ e.resolutionStatus = "DefaultedAfterFailure"]_vars

\* C14: a file of a batch that handleFiles still holds behind a suspended
\* resolution, accepted and not yet queued, is eventually in the queue, also
\* when the conversion endpoint fails or never responds.
BatchEventuallyQueued ==
  \A h \in Handlers, f \in Files :
    (/\ intake[h].pc = "resolving"
     /\ \E k \in 1..Len(intake[h].rest) : intake[h].rest[k] = f
     /\ isAllowed(f)
     /\ ~SameKey(f, intake[h].cur[1])
     /\ KeyCount(uploadedFiles, f) = 0)
    ~> (KeyCount(uploadedFiles, f) > 0)

\* C15: a /convert-docx request whose converter subprocess never exits on
\* its own is answered with a failure once the timeout has terminated the
\* subprocess, and no request stays pending forever.
HangingConversionAnswered ==
  \A r \in Requests :
    /\ (req[r].pc = "converting" /\ req[r].hangs)
         ~> (req[r].pc = "answered" /\ req[r].status = 500)
    /\ (req[r].pc = "converting") ~> (req[r].pc = "answered")

\* C16: the submission state machine follows its scenario.  With an empty
\* queue and no submission made the button is Inactive; the intake that
\* makes an empty queue hold one file ends with it Active; a submission
\* starts only from an enabled button and makes it Processing; a submission
\* that fails ends with the button Active and the queue as it was; one that
\* succeeds ends with the button Inactive and the queue empty.
SubmissionScenario ==
  /\ []((Len(uploadedFiles) = 0 /\ \A s \in Subs : pay[s].pc = "idle")
          => payButton = ButtonInactive)
  /\ [][/\ \A h \in Handlers :
             /\ intake[h].pc # "done" /\ intake'[h].pc = "done"
             /\ Len(uploadedFiles) = 0 /\ payButton = ButtonInactive
             /\ Len(uploadedFiles') = 1
             => payButton' = ButtonActive
        /\ \A s \in Subs :
             /\ pay[s].pc = "idle" /\ InFlight(s)'
                  => ~payButton.disabled /\ payButton' = ButtonProcessing
             /\ pay[s].pc # "done" /\ pay'[s].pc = "done"
                  /\ pay'[s].result = "failed"
                  => payButton' = ButtonActive /\ uploadedFiles' = uploadedFiles
             /\ pay[s].pc # "done" /\ pay'[s].pc = "done"
                  /\ pay'[s].result = "success"
                  => payButton' = ButtonInactive /\ uploadedFiles' = <<>>]_vars

\* The scenario ran to its successful end: one file was submitted, the
\* confirmation was delivered, the queue is empty and the button Inactive.
ScenarioSucceeded ==
  \E s \in Subs :
    /\ pay[s].pc = "done" /\ pay[s].result = "success"
    /\ Len(pay[s].uploads) = 1 /\ Len(Persisted(s)) = 1
    /\ uploadedFiles = <<>>
    /\ payButton = ButtonInactive

\* C17: whenever the client is idle or suspended at an await, the stored
\* total is (sum of the page counts of the queue) x (price per page).
TotalMatchesQueue ==
  currentTotal = JsMul(SumPages(uploadedFiles), Num(currentPricePerPage))

\* C18: a submission sends at most one notification request, only after its
\* loop over the queued files has ended, and the message has one line per
\* order record the submission persisted and no other line.
OneNotificationOfPersisted ==
  \A s \in Subs :
    /\ Len(Notified(s)) <= 1
    /\ Notified(s) # <<>> =>
         /\ ~InLoop(pay[s])
         /\ Len(Notified(s)[1].lines) = Len(Persisted(s))
         /\ \A k \in 1..Len(Persisted(s)) :
              /\ Notified(s)[1].lines[k].fileName = Persisted(s)[k].filename
              /\ Notified(s)[1].lines[k].pages = Persisted(s)[k].pagecount
              /\ Notified(s)[1].lines[k].cost = Persisted(s)[k].cost

\* C19: the confirmation of a submission whose uploads and inserts all
\* succeeded has one line per file, every line priced with one and the same
\* price option, and its total is the lines' pages times that price.
SinglePricePerSubmission ==
  \A s \in Subs :
    (/\ Notified(s) # <<>>
     /\ \A k \in 1..Len(pay[s].uploads) : pay[s].uploads[k].ok
     /\ Len(Persisted(s)) = Len(pay[s].uploads))
    => LET e == Notified(s)[1] IN
       /\ Len(e.lines) = Len(pay[s].uploads)
       /\ \E t \in PrintTypes :
            /\ \A k \in 1..Len(e.lines) :
                 e.lines[k].cost = JsMul(e.lines[k].pages, Num(t[2]))
            /\ e.total = JsMul(SumPages(e.lines), Num(t[2]))

\* C20: a submission whose notification is delivered is reported as a
\* success, whatever files of the batch failed: it ends with no error, the
\* queue and the rendered list empty and the pay button Inactive.
DeliveredBatchSucceeds ==
  [][\A s \in Subs :
       pay[s].pc = "email" /\ pay'[s].pc = "done" /\ EmailSettles(s, TRUE)
       => /\ pay'[s].result = "success"
          /\ pay'[s].error = ""
          /\ uploadedFiles' = <<>>
          /\ fileListEl' = <<>>
          /\ payButton' = ButtonInactive]_vars

\* A submission ended as a success with one order persisted although the
\* upload of one file and the insert of another had failed.
PartialBatchSucceeded ==
  \E s \in Subs :
    /\ pay[s].pc = "done" /\ pay[s].result = "success"
    /\ Len(pay[s].uploads) = 3
    /\ \E k \in 1..3 : ~pay[s].uploads[k].ok
    /\ \E k \in 1..Len(pay[s].ordersSummary) :
         pay[s].ordersSummary[k].orderId = 0
    /\ Len(Persisted(s)) = 1
    /\ uploadedFiles = <<>>
    /\ payButton = ButtonInactive

\* The extensions the intake is to accept, in the letter cases in use.
AcceptedAnyCase ==
  {"pdf", "PDF", "Pdf", "doc", "docx", "DOCX", "png", "jpg", "JPG", "jpeg",
   "webp", "jfif"}

Accepted(file) == file.name[2] \in AcceptedAnyCase

\* C21: a file whose name ends with no accepted extension is never queued
\* and never sent to a resolution, and a list of such files leaves the queue
\* and the request counters as they are; a file with an accepted extension
\* in any letter case that is not queued yet is queued or sent to its
\* resolution.
ExtensionFilter ==
  /\ [](/\ \A k \in 1..Len(uploadedFiles) : Accepted(uploadedFiles[k])
        /\ \A h \in Handlers :
             intake[h].pc = "resolving" => Accepted(intake[h].cur[1]))
  /\ [][\A h \in Handlers :
          intake[h].pc = "idle" /\ intake'[h].pc # "idle"
          => \A fl \in CaseLists :
               HandleFiles(h, fl) =>
                 /\ (\A k \in 1..Len(fl) : ~Accepted(fl[k]))
                      => /\ uploadedFiles' = uploadedFiles
                         /\ pdfParses' = pdfParses
                         /\ convertRequests' = convertRequests
                         /\ intake'[h].pc = "done"
                 /\ Accepted(fl[1]) /\ KeyCount(uploadedFiles, fl[1]) = 0
                      => \/ KeyCount(uploadedFiles', fl[1]) = 1
                         \/ /\ intake'[h].pc = "resolving"
                            /\ intake'[h].cur[1] = fl[1]]_vars

\* Both intakes ended, a file named in upper case is the only entry and no
\* duplicate was dropped: the other files offered were filtered out.
UpperCaseQueuedOthersFiltered ==
  /\ \A h \in Handlers : intake[h].pc = "done"
  /\ Len(uploadedFiles) = 1
  /\ uploadedFiles[1].name[2] \in {"PDF", "Pdf", "DOCX"}
  /\ dupDrops = 0

\* C22: two conversion requests in flight at the same time never use the
\* same scratch input path nor the same artifact path.
DistinctScratchPaths ==
  \A r1, r2 \in Requests :
    r1 # r2 /\ req[r1].pc = "converting" /\ req[r2].pc = "converting"
    => /\ req[r1].inputPath # req[r2].inputPath
       /\ PdfPath(req[r1].inputPath[1]) # PdfPath(req[r2].inputPath[1])

\* The names and sizes of a sequence of entries or upload records.
Keys(q) == [k \in 1..Len(q) |-> <<q[k].name, q[k].size>>]

\* C23: the files a submission uploads are exactly the queue's content at
\* the time it was triggered: while its loop runs, its uploads so far are
\* the first of the files queued at the trigger, in order.
UploadsAreQueueAtTrigger ==
  \A s \in Subs :
    InLoop(pay[s])
    => /\ Len(pay[s].uploads) <= Len(pay[s].queued)
       /\ Keys(pay[s].uploads) =
            SubSeq(Keys(pay[s].queued), 1, Len(pay[s].uploads))

\* C24: every persisted order record carries the storage key the upload of
\* the same file returned in the same submission, with status pending and
\* the page count, cost, paper size, color mode and customer identity.
OrderCarriesStorageKey ==
  \A k \in 1..Len(orders) :
    /\ {"filepath", "status", "pagecount", "cost", "papersize", "color",
        "customer_email"} \subseteq DOMAIN orders[k]
    /\ orders[k].status = "pending"
    /\ \E u \in 1..Len(pay[orders[k].sub].uploads) :
         LET up == pay[orders[k].sub].uploads[u] IN
         /\ up.ok
         /\ up.name = orders[k].filename
         /\ up.path = <<orders[k].filepath>>

\* C25: an order insert is issued only after the upload of the same file
\* completed successfully: a submission awaiting an insert has just had the
\* upload of that file succeed, and every order record's file has a stored
\* blob from the iteration of the submission that saved it.
InsertOnlyAfterUpload ==
  /\ \A s \in Subs :
       pay[s].pc = "insert"
       => /\ Len(pay[s].uploads) > 0
          /\ pay[s].uploads[Len(pay[s].uploads)].ok
          /\ pay[s].uploads[Len(pay[s].uploads)].name
               = pay[s].orderData.fileName
  /\ \A k \in 1..Len(orders) :
       \E u \in 1..Len(pay[orders[k].sub].uploads) :
         /\ pay[orders[k].sub].uploads[u].ok
         /\ pay[orders[k].sub].uploads[u].name = orders[k].filename

\* An order was saved in a submission in which an earlier upload failed.
OrderSavedAfterFailedUpload ==
  /\ Len(orders) = 1
  /\ orders[1].idx > 1
  /\ ~pay[orders[1].sub].uploads[1].ok

\* C26: whenever no submission is in flight and no intake is under way, the
\* button is Inactive exactly when the queue is empty or its total page
\* count is zero, and Active never coexists with an empty queue, also after
\* a failed submission.
ButtonFollowsQueue ==
  (/\ \A s \in Subs : pay[s].pc \in {"idle", "done"}
   /\ \A h \in Handlers : intake[h].pc \in {"idle", "done"})
  => /\ payButton = ButtonInactive
          <=> (Len(uploadedFiles) = 0 \/ IsZero(SumPages(uploadedFiles)))
     /\ payButton = ButtonActive => Len(uploadedFiles) > 0

\* C27: a submission with an empty customer identity or an empty queue
\* fails before any side effect: it uploads nothing, inserts no order,
\* sends no notification, leaves the queue unchanged and returns the button
\* to Active.
EarlyFailureHasNoEffect ==
  /\ [][\A s \in Subs :
          (/\ pay[s].pc = "idle"
           /\ pay'[s].pc # "idle"
           /\ (pay'[s].customerEmail = "" \/ Len(uploadedFiles) = 0))
          => /\ pay'[s].pc = "done"
             /\ pay'[s].result = "failed"
             /\ pay'[s].uploads = <<>>
             /\ orders' = orders
             /\ emails' = emails
             /\ uploadedFiles' = uploadedFiles
             /\ payButton' = ButtonActive]_vars
  /\ [](\A s \in Subs :
          pay[s].error \in {"Please enter a Gmail address.",
                            "No files uploaded."}
          => /\ pay[s].uploads = <<>>
             /\ \A k \in 1..Len(orders) : orders[k].sub # s
             /\ \A k \in 1..Len(emails) : emails[k].sub # s)

\* A failed submission left the button enabled over an emptied queue, and
\* the next submission, with a customer identity, failed on the empty queue.
FailedOnEmptyQueue ==
  /\ pay[2].error = "No files uploaded."
  /\ pay[2].customerEmail # ""
  /\ Len(uploadedFiles) = 0

\* C28: provided every call it awaits settles, a submission that entered its
\* loop eventually ends, and a submission ends either failed with the button
\* Active or successful with the button Inactive and the queue empty.
SubmissionEnds ==
  /\ \A s \in Subs :
       (InLoop(pay[s]) \/ pay[s].pc = "email") ~> (pay[s].pc = "done")
  /\ [][\A s \in Subs :
          pay[s].pc # "done" /\ pay'[s].pc = "done"
          => \/ /\ pay'[s].result = "failed"
                /\ payButton' = ButtonActive
             \/ /\ pay'[s].result = "success"
                /\ payButton' = ButtonInactive
                /\ uploadedFiles' = <<>>]_vars

\* A submission ended successfully after one of its uploads had failed.
EndedAfterAwaitedCalls ==
  /\ pay[1].pc = "done"
  /\ pay[1].result = "success"
  /\ Len(pay[1].uploads) = 2
  /\ ~pay[1].uploads[1].ok

\* xs is ys with some of its members left out.
RECURSIVE IsSubSeq(_, _)
IsSubSeq(xs, ys) ==
  IF xs = <<>> THEN TRUE
  ELSE IF ys = <<>> THEN FALSE
  ELSE IF Head(xs) = Head(ys) THEN IsSubSeq(Tail(xs), Tail(ys))
  ELSE IsSubSeq(xs, Tail(ys))

\* The queue q1 is the queue q0, as it was, followed by entries of files
\* of the list offered, in the order of the list.
AppendedInOrder(q0, q1, offered) ==
  /\ Len(q1) >= Len(q0)
  /\ SubSeq(q1, 1, Len(q0)) = q0
  /\ IsSubSeq([k \in 1..(Len(q1) - Len(q0)) |-> q1[Len(q0) + k].file],
              offered)

\* C29: accepted files are appended at the end of the queue in arrival
\* order: every step of a handleFiles invocation leaves the entries queued
\* before it in place, with their order and page counts, and puts the new
\* entries after them in the order of the list it was given.
AppendsInArrivalOrder ==
  [][\A h \in Handlers :
       <<intake'[h].pc, intake'[h].cur, intake'[h].rest>>
         # <<intake[h].pc, intake[h].cur, intake[h].rest>>
       => IF intake[h].pc = "idle"
          THEN \A fl \in FileLists(MaxBatch) :
                 HandleFiles(h, fl)
                 => AppendedInOrder(uploadedFiles, uploadedFiles', fl)
          ELSE AppendedInOrder(uploadedFiles, uploadedFiles',
                               intake[h].cur \o intake[h].rest)]_vars

\* Two intakes ended and left three entries: the file queued first, then the
\* two of the second list in the order of that list.
ThreeQueuedInArrivalOrder ==
  /\ \A h \in Handlers : intake[h].pc = "done"
  /\ Keys(uploadedFiles) = << <<<<"c", "jpg">>, 1>>, <<<<"b", "docx">>, 1>>,
                              <<<<"a", "pdf">>, 1>> >>
  /\ uploadedFiles[2].pages # Num(1)

\* The entries of q other than those of the given name and size, in order.
RECURSIVE Kept(_, _, _)
Kept(q, name, size) ==
  IF q = <<>> THEN <<>>
  ELSE IF Head(q).name = name /\ Head(q).size = size
    THEN Kept(Tail(q), name, size)
  ELSE <<Head(q)>> \o Kept(Tail(q), name, size)

\* C30: removeFile(name, size) removes exactly the entries of that name and
\* size and leaves the others as they are, in their order; the total and the
\* button are recomputed from the resulting queue; the removal of a pair
\* that is not queued leaves the queue unchanged.
RemoveExactlyMatching ==
  /\ [][Len(uploadedFiles') < Len(uploadedFiles)
        => \A f \in Files :
             removeFile(f.name, f.size)
             => /\ uploadedFiles' = Kept(uploadedFiles, f.name, f.size)
                /\ KeyCount(uploadedFiles', f) = 0
                /\ currentTotal' =
                     JsMul(SumPages(uploadedFiles'), Num(currentPricePerPage))
                /\ payButton' =
                     IF Len(uploadedFiles') = 0
                        \/ IsZero(SumPages(uploadedFiles'))
                     THEN ButtonInactive ELSE ButtonActive]_vars
  /\ [](\A f \in Files :
          KeyCount(uploadedFiles, f) = 0
          => Without(uploadedFiles, f.name, f.size) = uploadedFiles)

\* Three files were resolved or queued, and the one that sat between the two
\* still queued is gone.
MiddleEntryRemoved ==
  /\ \A h \in Handlers : intake[h].pc = "done"
  /\ pdfParses = 1
  /\ convertRequests = 1
  /\ dupDrops = 0
  /\ Keys(uploadedFiles) = << <<<<"c", "jpg">>, 1>>, <<<<"b", "docx">>, 1>> >>
  /\ fileListEl = Render(uploadedFiles)

\* C31: after a reset of the queue, an intake that was started before the
\* reset and was suspended in a page-count resolution at the reset never
\* appends a file to the queue.
StaleIntakeNeverAppends ==
  [][\A h \in Handlers :
       intake[h].stale /\ intake'[h] # intake[h]
       => Len(uploadedFiles') <= Len(uploadedFiles)]_vars

\* C32: the page count of a successful conversion response is the page count
\* of the artifact the converter produced for that very request, never that
\* of the uploaded bytes nor of another request's artifact.
PageCountFromOwnArtifact ==
  \A r \in Requests :
    req[r].pc = "answered" /\ req[r].status = 200
    => req[r].readFrom = <<[by |-> r, kind |-> "pdf"]>>

\* C33: when the converter is not installed, a conversion request carrying
\* a file is answered 503, and neither a scratch file is written nor a
\* conversion subprocess started for it.
UnavailableConverterAnswered503 ==
  \A r \in Requests :
    (~sofficeInstalled /\ req[r].pc # "idle" /\ req[r].status # 400)
    => /\ req[r].pc = "answered"
       /\ req[r].status = 503
       /\ req[r].inputPath = <<>>

\* C34: in the variants that probe the converter once at startup, a server
\* on which the converter is installed never answers a conversion request
\* with 503, also before the callback of the probe has run.
InstalledConverterNever503 ==
  (variant \in {2, 3} /\ sofficeInstalled)
  => \A r \in Requests : req[r].status # 503

\* C35: a conversion request that carries no file is answered 400 and has no
\* side effect, neither a scratch file nor a subprocess; and every conversion
\* request that the server took up receives its response.
NoFileRejectedAllAnswered ==
  /\ [](\A r \in Requests :
          req[r].status = 400
          => /\ req[r].pc = "answered"
             /\ req[r].inputPath = <<>>
             /\ \A p \in DOMAIN tmpFiles : tmpFiles[p].by # r)
  /\ \A r \in Requests : (req[r].pc # "idle") ~> (req[r].pc = "answered")

\* C36: the mail transport is invoked for a /send-email request only if the
\* credentials of the transporter are set, the recipient, the subject and the
\* message are all present and the recipient is a string containing '@';
\* a request for which it is not invoked is answered 500 (no transporter) or
\* 400 (missing field, invalid recipient), and a transport failure 500.
MailOnlyForValidRequest ==
  \A m \in Mails :
    /\ mail[m].invoked
         => /\ credentials
            /\ Present(mail[m].to)
            /\ Present(mail[m].subject)
            /\ Present(mail[m].message)
            /\ mail[m].to.t = "str"
            /\ mail[m].to.v = "user@gmail.com"
    /\ (mail[m].pc = "answered" /\ ~mail[m].invoked)
         => \/ mail[m].status = 500 /\ ~credentials
            \/ /\ mail[m].status = 400
               /\ \/ ~Present(mail[m].to)
                  \/ ~Present(mail[m].subject)
                  \/ ~Present(mail[m].message)
                  \/ mail[m].to.t # "str"
                  \/ mail[m].to.v # "user@gmail.com"
    /\ (mail[m].pc = "answered" /\ mail[m].invoked)
         => mail[m].status \in {200, 500}

\* C37: every storage upload uses a key different from the key of every
\* earlier upload, across the files of a submission and across submissions.
UploadKeysDistinct ==
  \A s1, s2 \in Subs :
    \A k1 \in 1..(Len(pay[s1].uploads) + Len(pay[s1].key)),
       k2 \in 1..(Len(pay[s2].uploads) + Len(pay[s2].key)) :
      LET KeyOf(s, k) == IF k <= Len(pay[s].uploads)
                         THEN pay[s].uploads[k].key ELSE pay[s].key[1]
      IN <<s1, k1>> # <<s2, k2>> => KeyOf(s1, k1) # KeyOf(s2, k2)

\* The requests whose converter subprocess is running.
Running == {r \in Requests : req[r].pc = "converting"}

\* C38: the number of converter subprocesses running at the same time never
\* exceeds a fixed worker-pool limit, however many requests are in flight:
\* with a limit below the number of requests the server may receive, the
\* requests never all run their subprocess at once.
SubprocessesBounded == Cardinality(Running) < Cardinality(Requests)

====
